---------------------------- MODULE Spec2Model ----------------------------
(***************************************************************************)
(* Model of the Notion Lite quick-capture clients:                         *)
(*   quick-capture-client.py  send_to_notion_lite                          *)
(*   working-capture.py       capture_to_notion_lite                       *)
(*   test-capture.py          test_api_status, test_capture, run_all_tests *)
(*                                                                         *)
(* Text is a sequence of characters, so that the slice content[:50] the    *)
(* scripts print is a real truncation.  A Python call is modelled by the   *)
(* flow it ends with: a normal return, or a raised exception class.        *)
(* print() is modelled by the sequence of lines it writes and never fails. *)
(***************************************************************************)
EXTENDS Integers, Sequences, FiniteSets, TLC

VARIABLES
    cfg,         \* the module-level configuration NOTION_LITE_URL, API_KEY, USER_ID
    content,     \* Spec: the text the caller captures
    page_arg,    \* Spec: the caller's page_title argument, or Omitted
    out,         \* Spec: what the network does with the request
    res,         \* Spec: per entry point, the completed call on this input
    rpc,         \* SpecRun: position of run_all_tests
    rget,        \* SpecRun: what the network did with the status GET
    ri,          \* SpecRun: enumerate() index of the test case in the loop
    rlog,        \* SpecRun: requests put on the wire, in order
    rsucc,       \* SpecRun: success_count
    rlast,       \* SpecRun: return value of the last test_capture
    tpc,         \* SpecConc: per thread, position inside its capture call
    tfn,         \* SpecConc: per thread, the entry point it called
    targ,        \* SpecConc: per thread, the local variable content
    tresp,       \* SpecConc: per thread, the local variable response
    tres,        \* SpecConc: per thread, the value returned
    wire,        \* SpecConc: requests put on the wire, in order
    given        \* SpecConc: history, what each thread was called with and answered

vars == <<cfg, content, page_arg, out, res, rpc, rget, ri, rlog, rsucc, rlast,
          tpc, tfn, targ, tresp, tres, wire, given>>

specVars == <<content, page_arg, out, res>>
runVars == <<rpc, rget, ri, rlog, rsucc, rlast>>
concVars == <<tpc, tfn, targ, tresp, tres, wire, given>>

-----------------------------------------------------------------------------
(* Bounds and program constants *)

PrintLimit == 50
LongExtra == 1
NumThreads == 2

Min(a, b) == IF a < b THEN a ELSE b

(* content[:50] *)
Prefix(s) == SubSeq(s, 1, Min(PrintLimit, Len(s)))

Omitted == "<omitted>"
DefaultPageTitle == "Inbox"
Placeholder == "YOUR_USER_ID_HERE"

Contents ==
    { <<>>,
      <<"[", "]", " ", "a">>,
      <<"[", "x", "]", " ", "b">>,
      <<"n">>,
      [i \in 1..(PrintLimit + LongExtra) |-> "z"] }

PageArgs == {Omitted, "Inbox", "Ideas"}

Configs ==
    [NOTION_LITE_URL : {"http://localhost:3002"},
     API_KEY : {"quick-capture-dev-key"},
     USER_ID : {Placeholder, "0bnt7oYu8zfqw09XRd3otDT8Fbo2"}]

-----------------------------------------------------------------------------
(* The network: a transport failure, or an HTTP response *)

TransportFailures == {"refused", "timeout", "dns"}
Statuses == {200, 201, 400, 401, 500}

JsonObject(keys) == [kind |-> "object", keys |-> keys, detail |-> "server"]
NonObject(kind) == [kind |-> kind, keys |-> {}, detail |-> "server"]

KeySets ==
    { {}, {"blockId", "pageId"}, {"pageId"}, {"error"}, {"message"},
      {"error", "debug", "received", "receivedKey", "details"} }

Bodies ==
    {JsonObject(k) : k \in KeySets}
        \cup {NonObject(k) : k \in {"array", "scalar", "text", "empty"}}

NoBody == NonObject("none")

Outcomes ==
    [t : {"transport"}, fail : TransportFailures, status : {0}, body : {NoBody}]
        \cup [t : {"http"}, fail : {"none"}, status : Statuses, body : Bodies]

TransportOutOf(fail) == [t |-> "transport", fail |-> fail, status |-> 0, body |-> NoBody]
HttpOut(status, body) == [t |-> "http", fail |-> "none", status |-> status, body |-> body]

IsJson(body) == body.kind \in {"object", "array", "scalar"}

(* Without a timeout argument requests raises, for a refused connection, a
   failed name lookup and a connect timeout alike, a ConnectionError
   (ConnectTimeout is a subclass of it). *)
ExceptionOf(fail) == "ConnectionError"

-----------------------------------------------------------------------------
(* Python values and control flow *)

NoValue == [kind |-> "none", keys |-> {}, detail |-> "none"]
EmptyDict == [kind |-> "object", keys |-> {}, detail |-> "none"]
(* {"error": str(e)} *)
ErrorDict(e) == [kind |-> "object", keys |-> {"error"}, detail |-> e]

Line(label) == [label |-> label, code |-> 0, text |-> <<>>]
LineCode(label, code) == [label |-> label, code |-> code, text |-> <<>>]
LineText(label, text) == [label |-> label, code |-> 0, text |-> text]

Return(ret, value, printed) ==
    [exc |-> "none", ret |-> ret, value |-> value, printed |-> printed]
Raise(e, printed) ==
    [exc |-> e, ret |-> FALSE, value |-> NoValue, printed |-> printed]

(* response.json(): the parsed body, or JSONDecodeError *)
json_exc(body) == IF IsJson(body) THEN "none" ELSE "JSONDecodeError"

(* data.get(...): only a dict has the method *)
get_exc(data) == IF data.kind = "object" THEN "none" ELSE "AttributeError"

(* A completed call: what it returned (or raised), printed and sent *)
Done(flow, posts) ==
    [done |-> TRUE, raised |-> flow.exc, ret |-> flow.ret, value |-> flow.value,
     printed |-> flow.printed, posts |-> posts]

NoResult ==
    [done |-> FALSE, raised |-> "none", ret |-> FALSE, value |-> NoValue,
     printed |-> <<>>, posts |-> <<>>]

-----------------------------------------------------------------------------
(* The request *)

Headers(c) ==
    ("x-api-key" :> c.API_KEY) @@ ("Content-Type" :> "application/json")

(* requests follows redirects unless told otherwise *)
DefaultAllowRedirects == TRUE

Request(method, c, body, allow_redirects) ==
    [method |-> method,
     url |-> <<c.NOTION_LITE_URL, "/api/capture">>,
     headers |-> Headers(c),
     json |-> body,
     allow_redirects |-> allow_redirects]

(* def send_to_notion_lite(content, page_title = "Inbox") *)
page_title_of(arg) == IF arg = Omitted THEN DefaultPageTitle ELSE arg

(* as send_payload, sending the printed slice of the content *)
send_payload_sliced(text, page_title, c) ==
    ("content" :> Prefix(text)) @@ ("userId" :> c.USER_ID) @@ ("pageTitle" :> page_title)

send_payload(text, page_title, c) ==
    ("content" :> text) @@ ("userId" :> c.USER_ID) @@ ("pageTitle" :> page_title)

capture_payload(text, c) ==
    ("content" :> text) @@ ("userId" :> c.USER_ID) @@ ("pageTitle" :> "Inbox")

test_payload(text, c) ==
    ("content" :> text) @@ ("userId" :> c.USER_ID) @@ ("pageTitle" :> "Inbox")

send_request(text, arg, c) ==
    Request("POST", c, send_payload(text, page_title_of(arg), c), DefaultAllowRedirects)

capture_request(text, c) ==
    Request("POST", c, capture_payload(text, c), TRUE)

test_request(text, c) ==
    Request("POST", c, test_payload(text, c), DefaultAllowRedirects)

(* requests.get(url): no headers, no body *)
status_request(c) ==
    [method |-> "GET",
     url |-> <<c.NOTION_LITE_URL, "/api/capture">>,
     headers |-> [h \in {} |-> ""],
     json |-> [k \in {} |-> ""],
     allow_redirects |-> DefaultAllowRedirects]

-----------------------------------------------------------------------------
(* requests.post(...), requests.get(...): the response, or the exception the
   transport raises *)
request_exc(o) == IF o.t = "transport" THEN ExceptionOf(o.fail) ELSE "none"

(* An except clause for class cls handles e *)
IsInstance(e, cls) == cls = "Exception" \/ cls = e

-----------------------------------------------------------------------------
(* quick-capture-client.py *)

send_try(text, page_title, resp) ==
    IF resp.status = 200
    THEN IF json_exc(resp.body) # "none"
         THEN Raise(json_exc(resp.body), <<>>)
         ELSE Return(TRUE, NoValue, <<LineText("Captured to", Prefix(text))>>)
    ELSE Return(FALSE, NoValue, <<LineCode("Failed", resp.status)>>)

send_except(e, printed) ==
    IF IsInstance(e, "Exception")
    THEN Return(FALSE, NoValue, Append(printed, Line("Error")))
    ELSE Raise(e, printed)

send_to_notion_lite(text, arg, c, o) ==
    LET page_title == page_title_of(arg)
        req == send_request(text, arg, c)
        flow == IF request_exc(o) # "none"
                THEN Raise(request_exc(o), <<>>)
                ELSE send_try(text, page_title, o)
    IN  Done(IF flow.exc # "none" THEN send_except(flow.exc, flow.printed) ELSE flow,
             <<req>>)

-----------------------------------------------------------------------------
(* working-capture.py *)

capture_try(text, resp) ==
    IF resp.status = 200
    THEN IF json_exc(resp.body) # "none"
         THEN Raise(json_exc(resp.body), <<>>)
         ELSE IF get_exc(resp.body) # "none"
         THEN Raise(get_exc(resp.body), <<LineText("Captured", Prefix(text))>>)
         ELSE Return(TRUE, resp.body,
                     <<LineText("Captured", Prefix(text)), Line("Block ID")>>)
    ELSE LET printed == <<LineCode("Failed with status", resp.status), Line("Response")>>
         IN  IF resp.body.kind = "empty"
             THEN Return(FALSE, EmptyDict, printed)
             ELSE IF json_exc(resp.body) # "none"
             THEN Raise(json_exc(resp.body), printed)
             ELSE Return(FALSE, resp.body, printed)

(* as capture_except, with the clause narrowed to the transport's exception *)
capture_except_narrow(e, printed) ==
    IF IsInstance(e, "ConnectionError")
    THEN Return(FALSE, ErrorDict(e), Append(printed, Line("Error")))
    ELSE Raise(e, printed)

capture_except(e, printed) ==
    IF IsInstance(e, "Exception")
    THEN Return(FALSE, ErrorDict(e), Append(printed, Line("Error")))
    ELSE Raise(e, printed)

capture_to_notion_lite(text, c, o) ==
    LET req == capture_request(text, c)
        flow == IF request_exc(o) # "none"
                THEN Raise(request_exc(o), <<>>)
                ELSE capture_try(text, o)
    IN  Done(IF flow.exc # "none" THEN capture_except(flow.exc, flow.printed) ELSE flow,
             <<req>>)

-----------------------------------------------------------------------------
(* test-capture.py *)

test_preamble(text, show_details) ==
    <<LineText("Testing Capture", text)>>
        \o (IF show_details THEN <<Line("URL"), Line("API Key"), Line("User ID")>> ELSE <<>>)

Optional(data, key, label) == IF key \in data.keys THEN <<Line(label)>> ELSE <<>>

(* lines 78-108: the branch on response.status_code, data being the parsed body *)
test_classify(status, data, show_details) ==
    IF status = 200
    THEN LET p == <<Line("Capture successful")>>
         IN  IF ~show_details THEN Return(TRUE, NoValue, p)
             ELSE IF get_exc(data) # "none" THEN Raise(get_exc(data), p)
             ELSE Return(TRUE, NoValue,
                         p \o <<Line("Block ID"), Line("Page ID")>>
                           \o Optional(data, "debug", "Debug Info"))
    ELSE IF status = 401
    THEN LET p == <<Line("Authentication failed")>>
         IN  IF get_exc(data) # "none" THEN Raise(get_exc(data), p)
             ELSE Return(FALSE, NoValue,
                         p \o <<Line("Error"), Line("Your API key"),
                                Line("Received key"), Line("Fix: API key")>>)
    ELSE IF status = 400
    THEN LET p == <<Line("Bad request")>>
         IN  IF get_exc(data) # "none" THEN Raise(get_exc(data), p)
             ELSE Return(FALSE, NoValue,
                         p \o <<Line("Error")>>
                           \o Optional(data, "received", "Received fields")
                           \o <<Line("Fix: USER_ID")>>)
    ELSE LET p == <<Line("Unexpected error")>>
         IN  IF get_exc(data) # "none" THEN Raise(get_exc(data), p)
             ELSE Return(FALSE, NoValue,
                         p \o <<Line("Error")>> \o Optional(data, "details", "Details"))

(* lines 67-108: the body of the outer try, after the POST returned resp *)
test_try(resp, show_details) ==
    LET p == <<LineCode("Status Code", resp.status)>>
    IN  IF json_exc(resp.body) # "none"
        THEN Return(FALSE, NoValue, Append(p, Line("Response Text")))
        ELSE LET f == test_classify(resp.status, resp.body, show_details)
             IN  [f EXCEPT !.printed = p \o f.printed]

test_except(e, printed) ==
    IF IsInstance(e, "ConnectionError")
    THEN Return(FALSE, NoValue,
                printed \o <<Line("Connection failed"), Line("Cannot connect"),
                             Line("Is Notion Lite running?")>>)
    ELSE IF IsInstance(e, "Exception")
    THEN Return(FALSE, NoValue, printed \o <<Line("Exception"), Line("Traceback")>>)
    ELSE Raise(e, printed)

(* as test_capture, sending the request again after a failed attempt *)
test_capture_retry(text, show_details, c, o) ==
    LET req == test_request(text, c)
        pre == test_preamble(text, show_details)
        flow == IF request_exc(o) # "none"
                THEN Raise(request_exc(o), <<>>)
                ELSE test_try(o, show_details)
        end == IF flow.exc # "none" THEN test_except(flow.exc, flow.printed) ELSE flow
    IN  Done([end EXCEPT !.printed = pre \o end.printed],
             IF end.ret THEN <<req>> ELSE <<req, req>>)

test_capture(text, show_details, c, o) ==
    LET req == test_request(text, c)
        pre == test_preamble(text, show_details)
        flow == IF request_exc(o) # "none"
                THEN Raise(request_exc(o), <<>>)
                ELSE test_try(o, show_details)
        end == IF flow.exc # "none" THEN test_except(flow.exc, flow.printed) ELSE flow
    IN  Done([end EXCEPT !.printed = pre \o end.printed], <<req>>)

-----------------------------------------------------------------------------
(* Spec: the entry points called, one at a time, on an input and a network
   outcome; res keeps each entry point's completed call on that input. *)

Callers == {"send", "capture", "test_details", "test_quiet"}

NoOutcome == [t |-> "none", fail |-> "none", status |-> 0, body |-> NoBody]
Threads == 1..NumThreads

IdleRun ==
    /\ rpc = "idle" /\ rget = NoOutcome
    /\ ri = 0 /\ rlog = <<>> /\ rsucc = 0 /\ rlast = FALSE

IdleConc ==
    /\ tpc = [t \in Threads |-> "idle"]
    /\ tfn = [t \in Threads |-> "none"]
    /\ targ = [t \in Threads |-> <<>>]
    /\ tresp = [t \in Threads |-> NoOutcome]
    /\ tres = [t \in Threads |-> NoResult]
    /\ wire = <<>>
    /\ given = [t \in Threads |-> [fn |-> "none", text |-> <<>>, resp |-> NoOutcome]]

IdleSpec ==
    /\ content = <<>> /\ page_arg = Omitted /\ out = NoOutcome
    /\ res = [f \in Callers |-> NoResult]

Init ==
    /\ cfg \in Configs
    /\ content \in Contents
    /\ page_arg \in PageArgs
    /\ out \in Outcomes
    /\ res = [f \in Callers |-> NoResult]
    /\ IdleRun
    /\ IdleConc

NewInput ==
    /\ \A f \in Callers : res[f].done
    /\ content' \in Contents
    /\ page_arg' \in PageArgs
    /\ out' \in Outcomes
    /\ res' = [f \in Callers |-> NoResult]
    /\ UNCHANGED <<cfg, runVars, concVars>>

Call_send_to_notion_lite ==
    /\ ~res["send"].done
    /\ res' = [res EXCEPT !["send"] = send_to_notion_lite(content, page_arg, cfg, out)]
    /\ UNCHANGED <<cfg, content, page_arg, out, runVars, concVars>>

Call_capture_to_notion_lite ==
    /\ ~res["capture"].done
    /\ res' = [res EXCEPT !["capture"] = capture_to_notion_lite(content, cfg, out)]
    /\ UNCHANGED <<cfg, content, page_arg, out, runVars, concVars>>

Call_test_capture(show_details) ==
    LET f == IF show_details THEN "test_details" ELSE "test_quiet"
    IN  /\ ~res[f].done
        /\ res' = [res EXCEPT ![f] = test_capture(content, show_details, cfg, out)]
        /\ UNCHANGED <<cfg, content, page_arg, out, runVars, concVars>>

Next ==
    \/ NewInput
    \/ Call_send_to_notion_lite
    \/ Call_capture_to_notion_lite
    \/ \E show_details \in BOOLEAN : Call_test_capture(show_details)

Spec == Init /\ [][Next]_vars

-----------------------------------------------------------------------------
(* SpecRun: run_all_tests of test-capture.py, one step per network call *)

NumTestCases == 6

(* test_cases, each abbreviated to its leading characters; the last one
   carries the time of day *)
test_cases ==
    << <<"S", "i", "m">>,
       <<"[", "]", " ", "T">>,
       <<"[", "x", "]", " ", "C">>,
       <<"T", "O", "D", "O", ":">>,
       <<"-", " ", "T">>,
       <<"T", "i", "m", "e", "s", "t", "a", "m", "p", "e", "d", ":">> >>

status_try(resp) ==
    LET p == <<LineCode("Status Code", resp.status)>>
    IN  IF resp.status = 200
        THEN IF json_exc(resp.body) # "none"
             THEN Raise(json_exc(resp.body), Append(p, Line("API is accessible")))
             ELSE IF get_exc(resp.body) # "none"
             THEN Raise(get_exc(resp.body), Append(p, Line("API is accessible")))
             ELSE Return(TRUE, NoValue, p \o <<Line("API is accessible"), Line("Message")>>)
        ELSE Return(FALSE, NoValue, Append(p, Line("Unexpected status code")))

status_except(e, printed) ==
    IF IsInstance(e, "ConnectionError")
    THEN Return(FALSE, NoValue, printed \o <<Line("Connection failed"), Line("Check that the app is running")>>)
    ELSE IF IsInstance(e, "Exception")
    THEN Return(FALSE, NoValue, Append(printed, Line("Error")))
    ELSE Raise(e, printed)

test_api_status(c, o) ==
    LET pre == <<Line("Testing API Status"), Line("URL")>>
        flow == IF request_exc(o) # "none"
                THEN Raise(request_exc(o), <<>>)
                ELSE status_try(o)
        end == IF flow.exc # "none" THEN status_except(flow.exc, flow.printed) ELSE flow
    IN  Done([end EXCEPT !.printed = pre \o end.printed], <<status_request(c)>>)

InitRun ==
    /\ cfg \in Configs
    /\ IdleSpec
    /\ IdleConc
    /\ rpc = "start" /\ rget = NoOutcome
    /\ ri = 0 /\ rlog = <<>> /\ rsucc = 0 /\ rlast = FALSE

(* lines 132-136 *)
Run_test_api_status ==
    /\ rpc = "start"
    /\ \E o \in Outcomes :
        LET r == test_api_status(cfg, o)
        IN  /\ rget' = o
            /\ rlog' = rlog \o r.posts
            /\ rpc' = IF r.raised # "none" THEN "raised"
                      ELSE IF ~r.ret THEN "returned" ELSE "config"
    /\ UNCHANGED <<cfg, specVars, concVars, ri, rsucc, rlast>>

(* lines 139-143 *)
Run_check_config ==
    /\ rpc = "config"
    /\ rpc' = IF cfg.USER_ID = Placeholder THEN "returned" ELSE "loop"
    /\ UNCHANGED <<cfg, specVars, concVars, rget, ri, rlog, rsucc, rlast>>

(* lines 160-163: one iteration of the loop over enumerate(test_cases, 1) *)
Run_test_case ==
    /\ rpc = "loop"
    /\ ri < NumTestCases
    /\ \E o \in Outcomes :
        LET i == ri + 1
            r == test_capture(test_cases[i], i = 1, cfg, o)
        IN  /\ ri' = i
            /\ rlog' = rlog \o r.posts
            /\ rlast' = r.ret
            /\ rsucc' = IF r.raised = "none" /\ r.ret THEN rsucc + 1 ELSE rsucc
            /\ rpc' = IF r.raised # "none" THEN "raised" ELSE "loop"
    /\ UNCHANGED <<cfg, specVars, concVars, rget>>

(* lines 166-178 *)
Run_summary ==
    /\ rpc = "loop"
    /\ ri = NumTestCases
    /\ rpc' = "returned"
    /\ UNCHANGED <<cfg, specVars, concVars, rget, ri, rlog, rsucc, rlast>>

NextRun ==
    \/ Run_test_api_status
    \/ Run_check_config
    \/ Run_test_case
    \/ Run_summary

SpecRun == InitRun /\ [][NextRun]_vars

-----------------------------------------------------------------------------
(* SpecConc: capture calls made from several threads at once.  A call blocks
   in requests.post between sending its request and getting its outcome. *)

ConcCallers == {"send", "capture", "test_details"}

ConcContents == { <<"n">>, <<"[", "]", " ", "a">> }

ConcOutcomes ==
    { TransportOutOf("refused"),
      HttpOut(200, JsonObject({"blockId", "pageId"})),
      HttpOut(200, NonObject("text")),
      HttpOut(401, JsonObject({"error"})) }

Invoke(f, text, arg, c, o) ==
    CASE f = "send" -> send_to_notion_lite(text, arg, c, o)
      [] f = "capture" -> capture_to_notion_lite(text, c, o)
      [] f = "test_details" -> test_capture(text, TRUE, c, o)
      [] f = "test_quiet" -> test_capture(text, FALSE, c, o)

RequestOf(f, text, arg, c) ==
    CASE f = "send" -> send_request(text, arg, c)
      [] f = "capture" -> capture_request(text, c)
      [] OTHER -> test_request(text, c)

(* as local_response, were the response kept in one module-level slot that
   the answered calls share *)
shared_response(t, responses) ==
    responses[CHOOSE u \in DOMAIN responses : responses[u].t # "none"]

(* the local variable response of the call running in thread t *)
local_response(t, responses) == responses[t]

InitConc ==
    /\ cfg \in Configs
    /\ IdleSpec
    /\ IdleRun
    /\ IdleConc

T_call(t, f, text) ==
    /\ tpc[t] = "idle"
    /\ tpc' = [tpc EXCEPT ![t] = "waiting"]
    /\ tfn' = [tfn EXCEPT ![t] = f]
    /\ targ' = [targ EXCEPT ![t] = text]
    /\ wire' = Append(wire, [by |-> t, req |-> RequestOf(f, text, Omitted, cfg)])
    /\ given' = [given EXCEPT ![t] = [fn |-> f, text |-> text, resp |-> NoOutcome]]
    /\ UNCHANGED <<cfg, specVars, runVars, tresp, tres>>

T_respond(t, o) ==
    /\ tpc[t] = "waiting"
    /\ tpc' = [tpc EXCEPT ![t] = "answered"]
    /\ tresp' = [tresp EXCEPT ![t] = o]
    /\ given' = [given EXCEPT ![t].resp = o]
    /\ UNCHANGED <<cfg, specVars, runVars, tfn, targ, tres, wire>>

T_return(t) ==
    /\ tpc[t] = "answered"
    /\ tpc' = [tpc EXCEPT ![t] = "returned"]
    /\ tres' = [tres EXCEPT ![t] =
                   Invoke(tfn[t], targ[t], Omitted, cfg, local_response(t, tresp))]
    /\ UNCHANGED <<cfg, specVars, runVars, tfn, targ, tresp, wire, given>>

NextConc ==
    \/ \E t \in Threads, f \in ConcCallers, text \in ConcContents : T_call(t, f, text)
    \/ \E t \in Threads, o \in ConcOutcomes : T_respond(t, o)
    \/ \E t \in Threads : T_return(t)

SpecConc == InitConc /\ [][NextConc]_vars

-----------------------------------------------------------------------------
(* Properties of a single capture call, checked under Spec *)

GotResponse == out.t = "http"
Scripts == {"send", "capture", "test_details"}

(* C1: a capture call never propagates an exception to its caller: on every
   transport outcome and every HTTP response it returns a value. *)
C1_NeverRaises ==
    \A f \in Callers : res[f].done => res[f].raised = "none"

(* C1 witness: calls returned although an exception was raised inside them:
   .get on a JSON array in capture_to_notion_lite and test_capture. *)
C1_Witness ==
    /\ GotResponse /\ out.status = 200 /\ out.body.kind = "array"
    /\ res["capture"].done /\ res["capture"].raised = "none" /\ ~res["capture"].ret
    /\ res["test_details"].done /\ res["test_details"].raised = "none"
    /\ res["send"].done

(* C2: a capture call reports success if and only if the response has status
   200 and a JSON body. *)
C2_SuccessIff200Json ==
    \A f \in Callers :
        res[f].done => (res[f].ret <=> (GotResponse /\ out.status = 200 /\ IsJson(out.body)))

(* The error kinds a call reports, read off the lines it prints *)
KindOfLabel(label) ==
    CASE label = "Authentication failed" -> "AuthenticationFailure"
      [] label = "Bad request" -> "MalformedRequest"
      [] label = "Unexpected error" -> "ServiceError"
      [] label = "Connection failed" -> "ConnectivityFailure"
      [] OTHER -> "none"

ErrorKinds(r) ==
    {KindOfLabel(r.printed[i].label) : i \in 1..Len(r.printed)} \ {"none"}

KindOfStatus(status) ==
    CASE status = 401 -> "AuthenticationFailure"
      [] status = 400 -> "MalformedRequest"
      [] OTHER -> "ServiceError"

(* C3: a call that receives a response with a status other than 200 reports
   exactly one error kind, the one its status determines, whatever the body. *)
C3_KindByStatusAlone ==
    \A f \in {"test_details", "test_quiet"} :
        (res[f].done /\ GotResponse /\ out.status # 200)
            => ErrorKinds(res[f]) = {KindOfStatus(out.status)}

(* The entry point f run on the current input against outcome o *)
RunOn(f, o) == Invoke(f, content, page_arg, cfg, o)

Labels(r) == [i \in 1..Len(r.printed) |-> r.printed[i].label]

(* What the caller and the console get, but for the free text of str(e) *)
Shape(r) ==
    [ret |-> r.ret, kind |-> r.value.kind, keys |-> r.value.keys, labels |-> Labels(r)]

(* C4: every transport failure yields the connectivity-failure outcome, and a
   call that received an HTTP response never yields the outcome of a call
   whose transport failed. *)
C4_ConnectivityDistinct ==
    \A f \in {"capture", "test_details", "test_quiet"} :
        /\ (res[f].done /\ ~GotResponse /\ f # "capture")
               => ErrorKinds(res[f]) = {"ConnectivityFailure"}
        /\ (res[f].done /\ GotResponse)
               => \A fail \in TransportFailures :
                      Shape(res[f]) # Shape(RunOn(f, TransportOutOf(fail)))

C6_PayloadExact ==
    \A f \in Callers :
        res[f].done =>
            LET b == res[f].posts[1].json
            IN  /\ DOMAIN b = {"content", "userId", "pageTitle"}
                /\ b["content"] = content
                /\ b["userId"] = cfg.USER_ID
                /\ b["pageTitle"] =
                       (IF f = "send" /\ page_arg # Omitted THEN page_arg ELSE "Inbox")

(* C6 witness: a content longer than the printed slice, sent by
   send_to_notion_lite to a named page and by capture_to_notion_lite *)
C6_Witness ==
    /\ Len(content) > PrintLimit /\ page_arg = "Ideas"
    /\ res["send"].done /\ res["send"].posts[1].json["pageTitle"] = "Ideas"
    /\ res["capture"].done /\ res["capture"].posts[1].json["content"] = content

(* C8: for the same content, configuration and network outcome the three
   scripts send the same request and return the same boolean. *)
C8_ScriptsAgree ==
    page_arg = Omitted =>
        \A f, g \in Scripts :
            (res[f].done /\ res[g].done)
                => (res[f].posts = res[g].posts /\ res[f].ret = res[g].ret)

(* C10: show_details changes only what test_capture prints: with and without
   it the same request is sent and the same boolean returned. *)
C10_ShowDetailsOnlyPrints ==
    (res["test_details"].done /\ res["test_quiet"].done)
        => /\ res["test_details"].posts = res["test_quiet"].posts
           /\ res["test_details"].ret = res["test_quiet"].ret

-----------------------------------------------------------------------------
(* Properties of concurrent calls, checked under SpecConc *)

SentBy(t) == {i \in 1..Len(wire) : wire[i].by = t}

(* C7: capture calls are independent and stateless under any interleaving:
   the configuration a call was made under is still the configuration, each
   call puts exactly one request of its own on the wire, built from its own
   arguments, also when another call carries the same content, and what a
   call returns is decided by its own arguments, the configuration and its
   own response. *)
C7_Independent ==
    \A t \in Threads :
        /\ tpc[t] # "idle" =>
               /\ Cardinality(SentBy(t)) = 1
               /\ \A i \in SentBy(t) :
                      wire[i].req = RequestOf(given[t].fn, given[t].text, Omitted, cfg)
        /\ tpc[t] = "returned" =>
               tres[t] = Invoke(given[t].fn, given[t].text, Omitted, cfg, given[t].resp)

(* C7 witness: two calls of the same entry point with the same content ran
   at once, were answered differently, and returned differently; both
   requests are on the wire. *)
C7_Witness ==
    /\ tpc[1] = "returned" /\ tpc[2] = "returned"
    /\ given[1].fn = given[2].fn /\ given[1].text = given[2].text
    /\ given[1].resp # given[2].resp
    /\ tres[1].ret /\ ~tres[2].ret
    /\ Cardinality(SentBy(1) \cup SentBy(2)) = 2
    /\ \A i, j \in SentBy(1) \cup SentBy(2) : wire[i].req = wire[j].req

-----------------------------------------------------------------------------
(* Properties of run_all_tests, checked under SpecRun *)

IsPost(r) == r.method = "POST"
Posts(log) == SelectSeq(log, IsPost)
ExpectedPosts(n) == [i \in 1..n |-> test_request(test_cases[i], cfg)]

StatusOk == rget.t = "http" /\ rget.status = 200
Configured == cfg.USER_ID # Placeholder

(* C9: in a run of run_all_tests no capture POST is sent unless the status
   GET returned 200 and USER_ID is not the placeholder; when both hold, one
   POST per test case is sent, in list order, and a failed capture does not
   stop the rest. *)
C9_RunAllTests ==
    /\ Posts(rlog) # <<>> => (StatusOk /\ Configured)
    /\ rpc = "loop" => Posts(rlog) = ExpectedPosts(ri)
    /\ (rpc \in {"returned", "raised"} /\ StatusOk /\ Configured)
           => Posts(rlog) = ExpectedPosts(NumTestCases)

=============================================================================
